---------------------------- MODULE Spec2Model ----------------------------
(***************************************************************************)
(* Model of main.py: the OCR API over Cloud Vision and Cloud Storage.      *)
(*                                                                         *)
(* Strings on which the code computes (lower(), strip(), split(),          *)
(* endswith(), re.sub(), sorted()) are sequences of one-character strings. *)
(* Strings the code only passes along (error messages, recognised text)    *)
(* are TLA+ strings.                                                       *)
(***************************************************************************)
EXTENDS Integers, Sequences, FiniteSets, TLC

VARIABLES
    env,      \* the process environment: variable -> value (None: unset)
    resp,     \* the request being answered and its response (Idle: none)
    gcs,      \* the storage bucket: object name -> object
    jobs,     \* history: the asynchronous jobs started so far
    agg,      \* the GET /ocr/async/result request in progress
    prev,     \* history: the previous undisturbed aggregation result
    writes    \* history: how often another party changed the bucket

vars == <<env, resp, gcs, jobs, agg, prev, writes>>

----------------------------------------------------------------------------
(* Python str operations                                                   *)

\* The printable ASCII characters in code point order: 32 (space) to 95 (_),
\* and 97 (a) to 126 (~). Code point 96 has no TLA+ string literal.
AsciiLow ==
    <<" ", "!", "\"", "#", "$", "%", "&", "'", "(", ")", "*", "+", ",", "-",
      ".", "/", "0", "1", "2", "3", "4", "5", "6", "7", "8", "9", ":", ";",
      "<", "=", ">", "?", "@", "A", "B", "C", "D", "E", "F", "G", "H", "I",
      "J", "K", "L", "M", "N", "O", "P", "Q", "R", "S", "T", "U", "V", "W",
      "X", "Y", "Z", "[", "\\", "]", "^", "_">>

AsciiHigh ==
    <<"a", "b", "c", "d", "e", "f", "g", "h", "i", "j", "k", "l", "m", "n",
      "o", "p", "q", "r", "s", "t", "u", "v", "w", "x", "y", "z", "{", "|",
      "}", "~">>

\* ord(c)
Ord(c) ==
    IF \E i \in 1..Len(AsciiLow) : AsciiLow[i] = c
    THEN 31 + (CHOOSE i \in 1..Len(AsciiLow) : AsciiLow[i] = c)
    ELSE 96 + (CHOOSE i \in 1..Len(AsciiHigh) : AsciiHigh[i] = c)

\* chr(n)
Chr(n) == IF n <= 95 THEN AsciiLow[n - 31] ELSE AsciiHigh[n - 96]

\* c.lower() for one character
LowerChar(c) == IF Ord(c) \in 65..90 THEN Chr(Ord(c) + 32) ELSE c

\* s.lower()
Lower(s) == [i \in 1..Len(s) |-> LowerChar(s[i])]

\* s.endswith(suffix)
EndsWith(s, suffix) ==
    /\ Len(s) >= Len(suffix)
    /\ SubSeq(s, Len(s) - Len(suffix) + 1, Len(s)) = suffix

\* s.startswith(prefix)
StartsWith(s, prefix) ==
    /\ Len(s) >= Len(prefix)
    /\ SubSeq(s, 1, Len(prefix)) = prefix

\* s.lstrip(chars): drop the leading characters that are in chars
RECURSIVE LStrip(_, _)
LStrip(s, chars) ==
    IF s # <<>> /\ Head(s) \in chars THEN LStrip(Tail(s), chars) ELSE s

\* s.rstrip(chars)
RECURSIVE RStrip(_, _)
RStrip(s, chars) ==
    IF s # <<>> /\ s[Len(s)] \in chars
    THEN RStrip(SubSeq(s, 1, Len(s) - 1), chars)
    ELSE s

\* s.strip(chars)
Strip(s, chars) == RStrip(LStrip(s, chars), chars)

\* The ASCII whitespace str.strip() removes by default, as far as Ascii has it.
Whitespace == {" "}

\* s.split(sep) for a one-character sep: the pieces between the separators
RECURSIVE SplitAcc(_, _, _)
SplitAcc(s, sep, cur) ==
    IF s = <<>> THEN <<cur>>
    ELSE IF Head(s) = sep THEN <<cur>> \o SplitAcc(Tail(s), sep, <<>>)
    ELSE SplitAcc(Tail(s), sep, Append(cur, Head(s)))

Split(s, sep) == SplitAcc(s, sep, <<>>)

\* a < b for str: by code point, a proper prefix first
RECURSIVE StrLess(_, _)
StrLess(a, b) ==
    IF b = <<>> THEN FALSE
    ELSE IF a = <<>> THEN TRUE
    ELSE IF Head(a) = Head(b) THEN StrLess(Tail(a), Tail(b))
    ELSE Ord(Head(a)) < Ord(Head(b))

\* All the strings over alphabet of length at most n
RECURSIVE StringsUpTo(_, _)
StringsUpTo(alphabet, n) ==
    IF n = 0 THEN {<<>>}
    ELSE LET shorter == StringsUpTo(alphabet, n - 1)
         IN  shorter \cup {Append(s, c) : s \in shorter, c \in alphabet}

----------------------------------------------------------------------------
(* None, and the environment                                               *)

None == [some |-> FALSE, v |-> <<>>]

Some(s) == [some |-> TRUE, v |-> s]

\* x or default, for an Optional[str] x
OrElse(x, default) == IF x.some /\ x.v # <<>> THEN x.v ELSE default

\* os.getenv(name, default): default is an Optional[str] as well
getenv(e, name, default) == IF e[name].some THEN e[name] ELSE default

Environ(tokens, upload, output) ==
    [API_BEARER_TOKENS |-> tokens, UPLOAD_BUCKET |-> upload,
     OUTPUT_BUCKET |-> output, OUTPUT_ROOT |-> None]

----------------------------------------------------------------------------
(* Security (HTTP Bearer)                                                  *)

\* _ALLOWED_TOKENS = {t.strip() for t in getenv(...).split(",") if t.strip()}
ALLOWED_TOKENS(e) ==
    LET parts == Split(getenv(e, "API_BEARER_TOKENS", Some(<<>>)).v, ",")
    IN  {Strip(t, Whitespace) : t \in
            {p \in {parts[i] : i \in 1..Len(parts)} :
                Strip(p, Whitespace) # <<>>}}

\* No Authorization header: HTTPBearer(auto_error=False) yields None.
NoCredentials == [scheme |-> <<>>, credentials |-> <<>>, none |-> TRUE]

Credentials(scheme, token) ==
    [scheme |-> scheme, credentials |-> token, none |-> FALSE]

Bearer == <<"b", "e", "a", "r", "e", "r">>

\* A gate with the 500 check first
require_bearer_token_config_first(credentials, allowed) ==
    IF allowed = {}
    THEN [ok |-> FALSE, status |-> 500, detail |-> "Server auth not configured"]
    ELSE IF credentials.none \/ credentials.scheme = <<>>
            \/ Lower(credentials.scheme) # Bearer
    THEN [ok |-> FALSE, status |-> 401, detail |-> "Not authenticated"]
    ELSE IF credentials.credentials \notin allowed
    THEN [ok |-> FALSE, status |-> 403, detail |-> "Invalid bearer token"]
    ELSE [ok |-> TRUE, status |-> 200, detail |-> ""]

\* require_bearer_token: the raised HTTPException, or ok
require_bearer_token(credentials, allowed) ==
    IF credentials.none \/ credentials.scheme = <<>>
       \/ Lower(credentials.scheme) # Bearer
    THEN [ok |-> FALSE, status |-> 401, detail |-> "Not authenticated"]
    ELSE IF allowed = {}
    THEN [ok |-> FALSE, status |-> 500, detail |-> "Server auth not configured"]
    ELSE IF credentials.credentials \notin allowed
    THEN [ok |-> FALSE, status |-> 403, detail |-> "Invalid bearer token"]
    ELSE [ok |-> TRUE, status |-> 200, detail |-> ""]

----------------------------------------------------------------------------
(* Requests and responses                                                  *)

\* No request is being answered.
Idle == [req |-> [endpoint |-> "none"], out |-> [status |-> 0]]

\* raise HTTPException(status, detail), after the external calls made so far
HTTPException(status, detail, path, calls) ==
    [status |-> status, detail |-> detail, kind |-> "", pages |-> <<>>,
     path |-> path, calls |-> calls]

TokenS == <<"s">>
TokenK == <<"k">>
BucketU == <<"u">>
BucketO == <<"o">>

\* The deployments modelled for the endpoints behind the gate: with
\* API_BEARER_TOKENS unset, and with one token and the buckets set.
DeployedEnvs ==
    {Environ(None, Some(BucketU), None),
     Environ(Some(TokenS), Some(BucketU), Some(BucketO))}

\* The Authorization headers sent to those endpoints
Creds ==
    {NoCredentials,
     Credentials(<<"B", "e", "a", "r", "e", "r">>, TokenS),
     Credentials(Bearer, TokenK)}

----------------------------------------------------------------------------
(* GET /health                                                             *)

MaxEnvLen == 3

\* The characters of the API_BEARER_TOKENS values tried
EnvAlphabet == {"s", "k", ",", " "}

\* The Authorization headers tried on the gate: none, and every scheme with
\* every token (<<>>: credentials.credentials is empty)
GateCreds ==
    {NoCredentials} \cup
    {Credentials(scheme, token) :
        scheme \in {Bearer, <<"B", "e", "a", "r", "e", "r">>,
                    <<"B", "a", "s", "i", "c">>, <<>>},
        token \in {<<>>, TokenS, TokenK}}

\* health: the gate, then {"status": "ok"}
HealthRequest ==
    /\ \E cred \in GateCreds :
        LET auth == require_bearer_token(cred, ALLOWED_TOKENS(env))
            req  == [endpoint |-> "health", cred |-> cred,
                     authorized |-> auth.ok]
        IN  IF auth.ok
            THEN resp' = [req |-> req,
                          out |-> [status |-> 200, detail |-> "ok"]]
            ELSE resp' = [req |-> req,
                          out |-> [status |-> auth.status,
                                   detail |-> auth.detail]]
    /\ UNCHANGED <<env, gcs, jobs, agg, prev, writes>>

----------------------------------------------------------------------------
(* POST /ocr                                                               *)

MaxPdfPages == 7

PdfPageLimit == 5

PageCountUnknown == 9999

ImageSlash == <<"i", "m", "a", "g", "e", "/">>
ApplicationPdf ==
    <<"a", "p", "p", "l", "i", "c", "a", "t", "i", "o", "n", "/", "p", "d", "f">>
ImageTiff == ImageSlash \o <<"t", "i", "f", "f">>
ImageTif == ImageSlash \o <<"t", "i", "f">>
ImagePng == ImageSlash \o <<"p", "n", "g">>
TextPlain == <<"t", "e", "x", "t", "/", "p", "l", "a", "i", "n">>

\* The bytes of an upload: their length, and what PdfReader makes of them
\* (the number of pages, or -1 when it raises).
Payloads ==
    {[size |-> 0, pdf |-> -1]}
        \cup {[size |-> 1, pdf |-> n] : n \in -1..MaxPdfPages}

\* file.content_type of the uploads sent to POST /ocr (<<>>: None)
OcrContentTypes ==
    {<<>>, ImagePng, ImageSlash \o <<"P", "N", "G">>, ApplicationPdf,
     <<"A">> \o Tail(ApplicationPdf), TextPlain}

Modes == {"auto", "async", "sync"}

\* What document_text_detection answers for an image
ImageReplies ==
    {[error |-> "", text |-> "x"], [error |-> "", text |-> ""],
     [error |-> "e1", text |-> ""]}

\* What batch_annotate_files answers for one page of a file; the engine
\* answers with one response for each page of the request's pages=[1..num].
PageReplies ==
    {[error |-> "", annotated |-> TRUE, text |-> "x"],
     [error |-> "", annotated |-> FALSE, text |-> ""],
     [error |-> "e1", annotated |-> FALSE, text |-> ""],
     [error |-> "e2", annotated |-> FALSE, text |-> ""]}

\* num = len(PdfReader(bio).pages), 9999 when PdfReader raises
PdfPageCount(data) == IF data.pdf < 0 THEN PageCountUnknown ELSE data.pdf

\* A size policy that lets one page more through
SmallEnoughOffByOne(mode, num) == mode # "async" /\ num <= PdfPageLimit + 1

\* mode != "async" and num <= 5
SmallEnough(mode, num) == mode # "async" /\ num <= PdfPageLimit

\* The image branch
OcrImage(r) ==
    LET calls == <<[call |-> "document_text_detection", pages |-> <<>>]>>
    IN  IF r.error # ""
        THEN HTTPException(500, r.error, "image", calls)
        ELSE [status |-> 200, detail |-> "", kind |-> "image",
              pages |-> <<[page |-> 1, text |-> r.text]>>,
              path |-> "image", calls |-> calls]

\* A loop that skips the pages with an error
RECURSIVE OcrPagesSkipErrors(_, _, _)
OcrPagesSkipErrors(rs, i, out_pages) ==
    IF i > Len(rs) THEN [error |-> "", pages |-> out_pages]
    ELSE IF rs[i].error # ""
    THEN OcrPagesSkipErrors(rs, i + 1, out_pages)
    ELSE OcrPagesSkipErrors(rs, i + 1,
            Append(out_pages,
                [page |-> i,
                 text |-> IF rs[i].annotated THEN rs[i].text ELSE ""]))

\* for i, r in enumerate(responses, start=1): raise on r.error.message,
\* else out_pages.append({"page": i, "text": txt})
RECURSIVE OcrPages(_, _, _)
OcrPages(rs, i, out_pages) ==
    IF i > Len(rs) THEN [error |-> "", pages |-> out_pages]
    ELSE IF rs[i].error # ""
    THEN [error |-> rs[i].error, pages |-> <<>>]
    ELSE OcrPages(rs, i + 1,
            Append(out_pages,
                [page |-> i,
                 text |-> IF rs[i].annotated THEN rs[i].text ELSE ""]))

\* The small PDF branch: one batch_annotate_files for pages 1..num
OcrPdfSync(num, rs) ==
    LET calls == <<[call |-> "batch_annotate_files",
                    pages |-> [i \in 1..num |-> i]]>>
        out   == OcrPages(rs, 1, <<>>)
    IN  IF out.error # ""
        THEN HTTPException(500, out.error, "pdf", calls)
        ELSE [status |-> 200, detail |-> "", kind |-> "pdf",
              pages |-> out.pages, path |-> "pdf", calls |-> calls]

\* A large PDF handed to the asynchronous path by the endpoint itself
OcrPdfUpgradeToAsync(num) ==
    [status |-> 200, detail |-> "", kind |-> "pdf", pages |-> <<>>,
     path |-> "pdf",
     calls |-> <<[call |-> "upload_from_file", pages |-> <<>>],
                 [call |-> "async_batch_annotate_files", pages |-> <<>>]>>]

\* raise HTTPException(413, ...)
OcrPdfTooLarge(num) == HTTPException(413, "PDF too large", "pdf", <<>>)

\* POST /ocr: the gate, then the handler ocr
OcrRequest ==
    /\ resp = Idle
    /\ \E cred \in Creds, content_type \in OcrContentTypes,
          mode \in Modes, data \in Payloads :
        LET auth == require_bearer_token(cred, ALLOWED_TOKENS(env))
            ct   == Lower(content_type)
            num  == PdfPageCount(data)
            req  == [endpoint |-> "ocr", cred |-> cred, authorized |-> auth.ok,
                     content_type |-> content_type, mode |-> mode,
                     data |-> data, replies |-> <<>>]
        IN  \/ /\ ~auth.ok
               /\ resp' = [req |-> req,
                           out |-> HTTPException(auth.status, auth.detail,
                                                 "none", <<>>)]
            \/ /\ auth.ok
               /\ data.size = 0
               /\ resp' = [req |-> req,
                           out |-> HTTPException(400, "Empty file", "none", <<>>)]
            \/ /\ auth.ok
               /\ data.size # 0
               /\ StartsWith(ct, ImageSlash)
               /\ \E r \in ImageReplies :
                    resp' = [req |-> [req EXCEPT !.replies = <<r>>],
                             out |-> OcrImage(r)]
            \/ /\ auth.ok
               /\ data.size # 0
               /\ ~StartsWith(ct, ImageSlash)
               /\ ct = ApplicationPdf
               /\ SmallEnough(mode, num)
               /\ \E rs \in [1..num -> PageReplies] :
                    resp' = [req |-> [req EXCEPT !.replies = rs],
                             out |-> OcrPdfSync(num, rs)]
            \/ /\ auth.ok
               /\ data.size # 0
               /\ ~StartsWith(ct, ImageSlash)
               /\ ct = ApplicationPdf
               /\ ~SmallEnough(mode, num)
               /\ resp' = [req |-> req, out |-> OcrPdfTooLarge(num)]
            \/ /\ auth.ok
               /\ data.size # 0
               /\ ~StartsWith(ct, ImageSlash)
               /\ ct # ApplicationPdf
               /\ resp' = [req |-> req,
                           out |-> HTTPException(415, "Unsupported content-type",
                                                 "unsupported", <<>>)]
    /\ UNCHANGED <<env, gcs, jobs, agg, prev, writes>>

\* handler(request) returns the response; nothing of the request is kept
HandlerReturn ==
    /\ resp # Idle
    /\ resp' = Idle
    /\ UNCHANGED <<env, gcs, jobs, agg, prev, writes>>

NoAgg == [pc |-> "none"]
NoPrev == [set |-> FALSE]

InitOcr ==
    /\ env \in DeployedEnvs
    /\ resp = Idle
    /\ gcs = <<>>
    /\ jobs = <<>>
    /\ agg = NoAgg
    /\ prev = NoPrev
    /\ writes = 0

NextOcr == OcrRequest \/ HandlerReturn

SpecOcr == InitOcr /\ [][NextOcr]_vars

\* The request being answered is a POST /ocr that reached the handler.
OcrHandled == resp.req.endpoint = "ocr" /\ resp.req.authorized

\* The pages of the request's file whose engine response carries an error
ErrorPages ==
    {i \in 1..Len(resp.req.replies) : resp.req.replies[i].error # ""}

\* The request is a PDF with a non-empty payload.
OcrPdfRequest ==
    /\ OcrHandled
    /\ resp.req.data.size # 0
    /\ Lower(resp.req.content_type) = ApplicationPdf

\* The response holds exactly count pages, numbered 1..count, page i with the
\* text of the engine's i-th response.
OcrAllPages(count) ==
    /\ resp.out.status = 200
    /\ Len(resp.out.pages) = count
    /\ \A i \in 1..count :
        /\ resp.out.pages[i].page = i
        /\ resp.out.pages[i].text =
            (IF resp.req.replies[i].annotated
             THEN resp.req.replies[i].text ELSE "")

OcrInvocations ==
    {i \in 1..Len(resp.out.calls) :
        resp.out.calls[i].call \in
            {"document_text_detection", "batch_annotate_files",
             "async_batch_annotate_files"}}

\* The request made at most one engine invocation, uploaded nothing and
\* started no asynchronous job.
OcrOneSideEffect ==
    /\ Cardinality(OcrInvocations) <= 1
    /\ \A i \in 1..Len(resp.out.calls) :
        resp.out.calls[i].call \notin
            {"upload_from_file", "async_batch_annotate_files"}

\* C2 as stated: every POST /ocr request takes exactly one of the image, PDF
\* and unsupported paths, makes at most one engine invocation, and neither
\* uploads to storage nor starts an asynchronous job.
C2_AsStated ==
    OcrHandled =>
        /\ resp.out.path \in {"image", "pdf", "unsupported"}
        /\ OcrOneSideEffect

\* C2, amended: every POST /ocr request with a non-empty payload takes
\* exactly one of the image, PDF and unsupported paths, and one with an empty
\* payload is answered 400 before a path is taken; every request, whatever
\* its mode and page count, makes at most one engine invocation and neither
\* uploads to storage nor starts an asynchronous job.
C2_OnePathOneInvocation ==
    /\ (OcrHandled /\ resp.req.data.size # 0) =>
            resp.out.path \in {"image", "pdf", "unsupported"}
    /\ (OcrHandled /\ resp.req.data.size = 0) =>
            (resp.out.path = "none" /\ resp.out.status = 400)
    /\ resp.req.endpoint = "ocr" => OcrOneSideEffect

\* A PDF of more than 5 pages sent with mode "async": answered 413 on the PDF
\* path, with no call made.
C2_Witness ==
    /\ OcrPdfRequest
    /\ resp.req.mode = "async"
    /\ PdfPageCount(resp.req.data) > 5
    /\ resp.out.path = "pdf"
    /\ resp.out.status = 413
    /\ resp.out.calls = <<>>

\* The request was answered by the synchronous PDF branch.
OcrPdfSyncRequest ==
    /\ OcrPdfRequest
    /\ resp.out.calls # <<>>

\* C7: a synchronous PDF request is fail-fast: when a page-level engine
\* response carries an error the answer is a 500 with the first such error in
\* page order and without any page; the answer is a success only when no
\* page response carries an error.
C7_FailFast ==
    OcrPdfSyncRequest =>
        /\ ErrorPages # {} =>
            /\ resp.out.status = 500
            /\ \E i \in ErrorPages :
                /\ \A j \in ErrorPages : i <= j
                /\ resp.out.detail = resp.req.replies[i].error
            /\ resp.out.pages = <<>>
        /\ resp.out.status = 200 => ErrorPages = {}
        /\ ErrorPages = {} => resp.out.status = 200

\* Page 1 recognised, page 2 failing with e2, page 3 failing with e1: a 500
\* carrying e2, and no page.
C7_Witness ==
    /\ OcrPdfSyncRequest
    /\ Len(resp.req.replies) >= 3
    /\ resp.req.replies[1].error = ""
    /\ resp.req.replies[2].error = "e2"
    /\ resp.req.replies[3].error = "e1"
    /\ resp.out.status = 500
    /\ resp.out.detail = "e2"
    /\ resp.out.pages = <<>>

----------------------------------------------------------------------------
(* The gate on its own, under every configuration                          *)

InitAuth ==
    /\ env \in {Environ(None, None, None)} \cup
            {Environ(Some(t), None, None) :
                t \in StringsUpTo(EnvAlphabet, MaxEnvLen)}
    /\ resp = Idle
    /\ gcs = <<>>
    /\ jobs = <<>>
    /\ agg = NoAgg
    /\ prev = NoPrev
    /\ writes = 0

NextAuth == HealthRequest

SpecAuth == InitAuth /\ [][NextAuth]_vars

\* The request carries no bearer credential: no Authorization header, or a
\* scheme other than Bearer.
NoBearerCredential ==
    \/ resp.req.cred.none
    \/ resp.req.cred.scheme = <<>>
    \/ Lower(resp.req.cred.scheme) # Bearer

\* C3 as stated: no credential gets 401; a credential not in the allow-set
\* gets 403; while the allow-set is empty every request gets 500, whatever
\* credential it supplies (so the 403 is for a non-empty allow-set); only a
\* credential in the allow-set reaches the handler.
C3_AsStated ==
    resp.req.endpoint = "health" =>
        LET allowed == ALLOWED_TOKENS(env)
        IN  /\ NoBearerCredential => resp.out.status = 401
            /\ (~NoBearerCredential /\ allowed # {}
                    /\ resp.req.cred.credentials \notin allowed)
                => resp.out.status = 403
            /\ allowed = {} => resp.out.status = 500
            /\ resp.req.authorized =>
                (~NoBearerCredential /\ resp.req.cred.credentials \in allowed)

\* C3, amended: no credential gets 401, also while the allow-set is empty; a
\* request that supplies a bearer credential while the allow-set is empty
\* gets 500 whatever the credential; a bearer credential not in a non-empty
\* allow-set gets 403; only a credential in the allow-set reaches the
\* handler, and it does.
C3_Gate ==
    resp.req.endpoint = "health" =>
        LET allowed == ALLOWED_TOKENS(env)
        IN  /\ NoBearerCredential => resp.out.status = 401
            /\ (~NoBearerCredential /\ allowed = {})
                => resp.out.status = 500
            /\ (~NoBearerCredential /\ allowed # {}
                    /\ resp.req.cred.credentials \notin allowed)
                => resp.out.status = 403
            /\ resp.req.authorized <=>
                (~NoBearerCredential /\ resp.req.cred.credentials \in allowed)
            /\ resp.req.authorized <=> resp.out.status = 200

\* A bearer credential sent to a server whose API_BEARER_TOKENS yields no
\* token although it is not empty (" , "): 500.
C3_Witness ==
    /\ resp.req.endpoint = "health"
    /\ OrElse(env.API_BEARER_TOKENS, <<>>) # <<>>
    /\ ALLOWED_TOKENS(env) = {}
    /\ ~NoBearerCredential
    /\ resp.req.cred.credentials = TokenS
    /\ resp.out.status = 500

----------------------------------------------------------------------------
(* POST /ocr/async/start: the sanitized filename                           *)

MaxNameLen == 3

\* The characters of the filenames tried: a letter of each case, a digit,
\* the three safe punctuation marks, a path separator and a space
NameAlphabet == {"a", "Z", "7", ".", "_", "-", "/", " "}

DocumentPdf ==
    <<"d", "o", "c", "u", "m", "e", "n", "t", ".", "p", "d", "f">>

\* c matches [a-zA-Z0-9._-]
SafeChar(c) ==
    \/ Ord(c) \in 97..122
    \/ Ord(c) \in 65..90
    \/ Ord(c) \in 48..57
    \/ c \in {".", "_", "-"}

\* A substitution that deletes the unsafe characters
SafeNameDeleting(filename) ==
    SelectSeq(OrElse(filename, DocumentPdf), SafeChar)

\* safe_name = re.sub(r"[^a-zA-Z0-9._-]", "_", file.filename or "document.pdf")
SafeName(filename) ==
    LET name == OrElse(filename, DocumentPdf)
    IN  [i \in 1..Len(name) |-> IF SafeChar(name[i]) THEN name[i] ELSE "_"]

\* The sanitization applied to a filename
Sanitize ==
    /\ resp.req.endpoint = "safe_name"
    /\ resp.out.status = 0
    /\ resp' = [resp EXCEPT !.out.status = 1,
                            !.out.safe_name = SafeName(resp.req.filename)]
    /\ UNCHANGED <<env, gcs, jobs, agg, prev, writes>>

\* The sanitization applied to its own result
SanitizeAgain ==
    /\ resp.req.endpoint = "safe_name"
    /\ resp.out.status = 1
    /\ resp' = [resp EXCEPT !.out.status = 2,
                            !.out.again = SafeName(Some(resp.out.safe_name))]
    /\ UNCHANGED <<env, gcs, jobs, agg, prev, writes>>

InitSanitize ==
    /\ env = Environ(None, None, None)
    /\ \E filename \in {None} \cup
            {Some(f) : f \in StringsUpTo(NameAlphabet, MaxNameLen)} :
        resp = [req |-> [endpoint |-> "safe_name", filename |-> filename],
                out |-> [status |-> 0, safe_name |-> <<>>, again |-> <<>>]]
    /\ gcs = <<>>
    /\ jobs = <<>>
    /\ agg = NoAgg
    /\ prev = NoPrev
    /\ writes = 0

NextSanitize == Sanitize \/ SanitizeAgain

SpecSanitize == InitSanitize /\ [][NextSanitize]_vars

\* safe is name with every character outside [A-Za-z0-9._-] replaced in
\* place by "_" (the characters of NameAlphabet one by one).
ReplacedInPlace(name, safe) ==
    /\ Len(safe) = Len(name)
    /\ \A i \in 1..Len(name) :
        safe[i] = (IF name[i] \in
                        {"a", "Z", "7", ".", "_", "-"} THEN name[i] ELSE "_")

\* C8 as stated: the sanitization maps every filename to a string of the same
\* length, safe characters kept in place and the others replaced by "_"; a
\* safe filename is unchanged; sanitizing twice is sanitizing once.
C8_AsStated ==
    (resp.req.endpoint = "safe_name" /\ resp.req.filename.some) =>
        /\ resp.out.status >= 1 =>
            ReplacedInPlace(resp.req.filename.v, resp.out.safe_name)
        /\ resp.out.status = 2 => resp.out.again = resp.out.safe_name

\* C8, amended: the sanitization maps every non-empty filename to a string of
\* the same length, safe characters kept in place and the others replaced by
\* "_", and a missing or empty filename to document.pdf; a safe non-empty
\* filename is unchanged; sanitizing twice is sanitizing once.
C8_Sanitize ==
    resp.req.endpoint = "safe_name" =>
        /\ (resp.out.status >= 1 /\ resp.req.filename.some
                /\ resp.req.filename.v # <<>>) =>
            ReplacedInPlace(resp.req.filename.v, resp.out.safe_name)
        /\ (resp.out.status >= 1
                /\ (~resp.req.filename.some \/ resp.req.filename.v = <<>>)) =>
            resp.out.safe_name = DocumentPdf
        /\ resp.out.status = 2 => resp.out.again = resp.out.safe_name

\* "a/ " sanitized to "a__", and sanitized again to the same.
C8_Witness ==
    /\ resp.req.endpoint = "safe_name"
    /\ resp.req.filename = Some(<<"a", "/", " ">>)
    /\ resp.out.status = 2
    /\ resp.out.safe_name = <<"a", "_", "_">>
    /\ resp.out.again = <<"a", "_", "_">>

----------------------------------------------------------------------------
(* POST /ocr/async/start                                                   *)

MaxJobs == 2

BatchSizeMin == 1

BatchSizeMax == 100

Gs == <<"g", "s", ":", "/", "/">>
DotPdf == <<".", "p", "d", "f">>
Uploads == <<"u", "p", "l", "o", "a", "d", "s">>
Jobs == <<"j", "o", "b", "s">>
GcvVisionOcr ==
    <<"g", "c", "v", "_", "v", "i", "s", "i", "o", "n", "_", "o", "c", "r">>

UPLOAD_BUCKET(e) == getenv(e, "UPLOAD_BUCKET", None)
OUTPUT_BUCKET(e) == getenv(e, "OUTPUT_BUCKET", UPLOAD_BUCKET(e))
OUTPUT_ROOT(e) == getenv(e, "OUTPUT_ROOT", Some(GcvVisionOcr))

\* _require_buckets: the detail of the HTTPException(500), or "" when it passes
require_buckets(e) ==
    IF OrElse(UPLOAD_BUCKET(e), <<>>) = <<>>
    THEN "UPLOAD_BUCKET env var not set"
    ELSE IF OrElse(OUTPUT_BUCKET(e), <<>>) = <<>>
    THEN "OUTPUT_BUCKET env var not set"
    ELSE ""

\* _gcs_uri
gcs_uri(bucket, path) == Gs \o bucket \o <<"/">> \o LStrip(path, {"/"})

\* blob.upload_from_file: the bucket with the object written (or overwritten)
upload_bytes_to_gcs(store, data, bucket, dest_path) ==
    [k \in DOMAIN store \cup {<<bucket, dest_path>>} |->
        IF k = <<bucket, dest_path>> THEN data ELSE store[k]]

\* The mime_type of the InputConfig that _start_async_vision builds
InputMimeType(gcs_input_uri) ==
    IF EndsWith(Lower(gcs_input_uri), DotPdf) THEN ApplicationPdf ELSE ImageTiff

\* What uuid.uuid4() may return, as str: version 4 UUIDs, the first two with
\* the same first eight digits
Uuid4s ==
    {<<"3", "f", "2", "a", "9", "c", "1", "e", "-", "5", "b", "7", "d", "-",
       "4", "e", "1", "a", "-", "9", "c", "3", "b", "-", "0", "a", "1", "b",
       "2", "c", "3", "d", "4", "e", "5", "f">>,
     <<"3", "f", "2", "a", "9", "c", "1", "e", "-", "8", "8", "0", "2", "-",
       "4", "7", "c", "6", "-", "b", "1", "1", "d", "-", "6", "6", "9", "0",
       "a", "a", "4", "1", "7", "7", "e", "2">>,
     <<"c", "0", "4", "d", "7", "7", "b", "a", "-", "1", "e", "9", "3", "-",
       "4", "2", "a", "f", "-", "a", "5", "5", "0", "-", "9", "d", "3", "e",
       "0", "f", "6", "2", "b", "b", "1", "8">>}

\* file.content_type of the uploads sent to POST /ocr/async/start
StartContentTypes ==
    {<<"A">> \o Tail(ApplicationPdf), ImageTiff, ImageTif, ImagePng}

\* file.filename of those uploads
StartFilenames ==
    {None, Some(<<"s", "c", "a", "n">>),
     Some(<<"a", " ", "b", ".", "P", "D", "F">>),
     Some(<<"t", ".", "t", "i", "f">>)}

\* hint_prefix
HintPrefixes == {None, Some(<<"/", "h", "/">>)}

BatchSizes == {BatchSizeMin, BatchSizeMax}

\* The payloads: none, and a document
StartPayloads == {[size |-> 0, pdf |-> -1], [size |-> 1, pdf |-> 6]}

\* The uuid4 values returned so far: a later call returns another one.
UsedUuids == {jobs[i].uuid : i \in 1..Len(jobs)}

\* POST /ocr/async/start: the gate, then the handler ocr_async_start
StartRequest ==
    /\ resp = Idle
    /\ Len(jobs) < MaxJobs
    /\ \E cred \in Creds, content_type \in StartContentTypes,
          filename \in StartFilenames, data \in StartPayloads,
          batch_size \in BatchSizes, hint_prefix \in HintPrefixes :
        LET auth    == require_bearer_token(cred, ALLOWED_TOKENS(env))
            buckets == require_buckets(env)
            ct      == Lower(content_type)
            req     == [endpoint |-> "start", cred |-> cred,
                        authorized |-> auth.ok,
                        content_type |-> content_type, filename |-> filename,
                        data |-> data, batch_size |-> batch_size,
                        hint_prefix |-> hint_prefix]
        IN  \/ /\ ~auth.ok
               /\ resp' = [req |-> req,
                           out |-> HTTPException(auth.status, auth.detail,
                                                 "none", <<>>)]
               /\ UNCHANGED <<gcs, jobs>>
            \/ /\ auth.ok
               /\ buckets # ""
               /\ resp' = [req |-> req,
                           out |-> HTTPException(500, buckets, "none", <<>>)]
               /\ UNCHANGED <<gcs, jobs>>
            \/ /\ auth.ok
               /\ buckets = ""
               /\ ct \notin {ApplicationPdf, ImageTiff, ImageTif}
               /\ resp' = [req |-> req,
                           out |-> HTTPException(415,
                                "Only application/pdf or image/tiff allowed",
                                "none", <<>>)]
               /\ UNCHANGED <<gcs, jobs>>
            \/ /\ auth.ok
               /\ buckets = ""
               /\ ct \in {ApplicationPdf, ImageTiff, ImageTif}
               /\ data.size = 0
               /\ resp' = [req |-> req,
                           out |-> HTTPException(400, "Empty file", "none", <<>>)]
               /\ UNCHANGED <<gcs, jobs>>
            \/ /\ auth.ok
               /\ buckets = ""
               /\ ct \in {ApplicationPdf, ImageTiff, ImageTif}
               /\ data.size # 0
               /\ \E uuid \in Uuid4s \ UsedUuids :
                    LET job_id    == SubSeq(uuid, 1, 8)
                        safe_name == SafeName(filename)
                        src_path  == Uploads \o <<"/">> \o job_id
                                        \o <<"/">> \o safe_name
                        gcs_input == gcs_uri(UPLOAD_BUCKET(env).v, src_path)
                        sub       == IF hint_prefix.some /\ hint_prefix.v # <<>>
                                     THEN Strip(hint_prefix.v, {"/"})
                                     ELSE Jobs \o <<"/">> \o job_id
                        gcs_output_prefix ==
                            gcs_uri(OUTPUT_BUCKET(env).v,
                                    OUTPUT_ROOT(env).v \o <<"/">> \o sub
                                        \o <<"/">>)
                        job == [uuid |-> uuid, job_id |-> job_id,
                                content_type |-> content_type,
                                filename |-> filename,
                                gcs_input |-> gcs_input,
                                gcs_output_prefix |-> gcs_output_prefix,
                                mime_type |-> InputMimeType(gcs_input),
                                batch_size |-> batch_size,
                                operation |-> Len(jobs) + 1]
                    IN  /\ gcs' = upload_bytes_to_gcs(gcs, data,
                                        UPLOAD_BUCKET(env).v, src_path)
                        /\ jobs' = Append(jobs, job)
                        /\ resp' = [req |-> req,
                                    out |-> [status |-> 200, detail |-> "",
                                             kind |-> "", pages |-> <<>>,
                                             path |-> "start",
                                             calls |->
                                                <<[call |-> "upload_from_file",
                                                   pages |-> <<>>],
                                                  [call |-> "async_batch_annotate_files",
                                                   pages |-> <<>>]>>,
                                             job |-> job]]
    /\ UNCHANGED <<env, agg, prev, writes>>

\* The deployments: no upload bucket; an upload bucket that is the output
\* bucket as well; an empty output bucket; both buckets
StartEnvs ==
    {Environ(Some(TokenS), None, Some(BucketO)),
     Environ(Some(TokenS), Some(BucketU), None),
     Environ(Some(TokenS), Some(BucketU), Some(<<>>)),
     Environ(Some(TokenS), Some(BucketU), Some(BucketO))}

InitStart ==
    /\ env \in StartEnvs
    /\ resp = Idle
    /\ gcs = <<>>
    /\ jobs = <<>>
    /\ agg = NoAgg
    /\ prev = NoPrev
    /\ writes = 0

NextStart == StartRequest \/ HandlerReturn

SpecStart == InitStart /\ [][NextStart]_vars

\* C6: any two successful POST /ocr/async/start calls have distinct job
\* identifiers and distinct upload paths, so that no call overwrites the
\* object another one uploaded.
C6_DistinctDestinations ==
    /\ \A i, j \in 1..Len(jobs) :
        i # j =>
            /\ jobs[i].job_id # jobs[j].job_id
            /\ jobs[i].gcs_input # jobs[j].gcs_input
    /\ Cardinality(DOMAIN gcs) = Len(jobs)

\* C10: the input MIME type sent to the OCR engine is application/pdf when
\* the declared content type is application/pdf and image/tiff when it is
\* image/tiff or image/tif, for every filename.
C10_MimeTypeFollowsContentType ==
    \A i \in 1..Len(jobs) :
        jobs[i].mime_type =
            (IF Lower(jobs[i].content_type) = ApplicationPdf
             THEN ApplicationPdf ELSE ImageTiff)

----------------------------------------------------------------------------
(* GET /ocr/async/result                                                   *)

MaxWrites == 1

DotJson == <<".", "j", "s", "o", "n">>

\* A Vision output shard as json.loads returns it: obj.get("responses", [])
\* is responses when has_responses, and each response's
\* fullTextAnnotation.text is text when has_text.
Shard(has_responses, responses) ==
    [has_responses |-> has_responses, responses |-> responses]
Response(text) == [has_text |-> TRUE, text |-> text]
NoAnnotation == [has_text |-> FALSE, text |-> ""]

ShardAB == Shard(TRUE, <<Response("A"), Response("B")>>)
ShardC == Shard(TRUE, <<Response("C")>>)
ShardBA == Shard(TRUE, <<Response("B"), NoAnnotation, Response("A")>>)
ShardEmpty == Shard(TRUE, <<>>)
ShardNoKey == Shard(FALSE, <<>>)

\* The object names tried in bucket o, and the contents tried under each
Name0 == <<"j", "/", "0", ".", "j", "s", "o", "n">>
Name1 == <<"j", "/", "1", ".", "j", "s", "o", "n">>
Name10 == <<"j", "/", "1", "0", ".", "J", "S", "O", "N">>
NameTxt == <<"j", "/", "n", ".", "t", "x", "t">>
NameOther == <<"j", "x", "/", "0", ".", "j", "s", "o", "n">>

BlobNames == {Name0, Name1, Name10, NameTxt, NameOther}

BlobContents(name) ==
    IF name = Name0 THEN {ShardAB, ShardEmpty}
    ELSE IF name = Name1 THEN {ShardC, ShardNoKey}
    ELSE IF name = Name10 THEN {ShardBA}
    ELSE {ShardC}

\* The bucket o holding the objects of the function f: name -> contents
BucketOf(f) == [k \in {<<BucketO, n>> : n \in DOMAIN f} |-> f[k[2]]]

Buckets ==
    {BucketOf(f) :
        f \in UNION {[names -> UNION {BlobContents(n) : n \in names}] :
                        names \in SUBSET BlobNames}}

\* The buckets in which every object holds one of the contents tried for it
ResultBuckets ==
    {b \in Buckets : \A k \in DOMAIN b : b[k] \in BlobContents(k[2])}

\* The prefix parameters tried
PrefixUris ==
    {Gs \o BucketO \o <<"/", "j">>, Gs \o BucketO \o <<"/", "j", "/">>,
     Gs \o BucketO \o <<"/">>, BucketO \o <<"/", "j", "/">>}

\* The index of the first "/" of s, Len(s) + 1 when it has none
RECURSIVE FirstSlash(_, _)
FirstSlash(s, i) ==
    IF i > Len(s) \/ s[i] = "/" THEN i ELSE FirstSlash(s, i + 1)

\* _parse_gcs_uri: re.match(r"^gs://([^/]+)/(.+)$", uri)
parse_gcs_uri(uri) ==
    LET rest  == SubSeq(uri, Len(Gs) + 1, Len(uri))
        slash == FirstSlash(rest, 1)
    IN  IF StartsWith(uri, Gs) /\ slash > 1 /\ slash < Len(rest)
        THEN [ok |-> TRUE, bucket |-> SubSeq(rest, 1, slash - 1),
              path |-> SubSeq(rest, slash + 1, Len(rest))]
        ELSE [ok |-> FALSE, bucket |-> <<>>, path |-> <<>>]

\* if not prefix.endswith("/"): prefix += "/"
FolderPrefix(prefix) ==
    IF EndsWith(prefix, <<"/">>) THEN prefix ELSE prefix \o <<"/">>

\* storage_client.list_blobs(bucket, prefix=prefix): the names, as a set (the
\* order in which they come is not the caller's)
list_blobs(store, bucket, prefix) ==
    {k[2] : k \in {q \in DOMAIN store :
                        q[1] = bucket /\ StartsWith(q[2], prefix)}}

\* b.name.lower().endswith(".json")
IsJsonName(name) == EndsWith(Lower(name), DotJson)

\* _list_json_blobs: the URIs of the shards under the prefix
list_json_blobs(store, prefix_uri) ==
    LET u == parse_gcs_uri(prefix_uri)
    IN  {Gs \o u.bucket \o <<"/">> \o n :
            n \in {m \in list_blobs(store, u.bucket, FolderPrefix(u.path)) :
                        IsJsonName(m)}}

\* The pages one shard contributes, in the order of its responses
ShardPages(obj, source) ==
    LET responses == IF obj.has_responses THEN obj.responses ELSE <<>>
    IN  [i \in 1..Len(responses) |->
            [text |-> IF responses[i].has_text THEN responses[i].text ELSE "",
             source |-> source]]

\* An insertion that puts p before the pages of its own source
RECURSIVE InsertPageBeforeEqual(_, _)
InsertPageBeforeEqual(p, sorted) ==
    IF sorted = <<>> THEN <<p>>
    ELSE IF StrLess(Head(sorted).source, p.source)
    THEN <<Head(sorted)>> \o InsertPageBeforeEqual(p, Tail(sorted))
    ELSE <<p>> \o sorted

\* One insertion of the stable sort: p goes after every page whose source is
\* not greater than its own
RECURSIVE InsertPage(_, _)
InsertPage(p, sorted) ==
    IF sorted = <<>> THEN <<p>>
    ELSE IF StrLess(p.source, Head(sorted).source)
    THEN <<p>> \o sorted
    ELSE <<Head(sorted)>> \o InsertPage(p, Tail(sorted))

RECURSIVE SortPages(_, _)
SortPages(pages, sorted) ==
    IF pages = <<>> THEN sorted
    ELSE SortPages(Tail(pages), InsertPage(Head(pages), sorted))

\* The pages left in the order of the listing
Unsorted(pages) == pages

\* sorted(pages, key=lambda p: p["source"])
SortedBySource(pages) == SortPages(pages, <<>>)

\* for i, p in enumerate(pages_sorted, start=1): p["page"] = i
Numbered(pages) ==
    [i \in 1..Len(pages) |->
        [text |-> pages[i].text, source |-> pages[i].source, page |-> i]]

\* The shards under the prefix, with their contents
ShardsUnder(store, bucket, prefix) ==
    LET names == {n \in list_blobs(store, bucket, prefix) : IsJsonName(n)}
    IN  [n \in names |-> store[<<bucket, n>>]]

\* GET /ocr/async/result: the gate, _parse_gcs_uri and the listing of
\* _download_texts_from_outputs
ResultRequest ==
    /\ agg.pc \in {"none", "done"}
    /\ \E cred \in Creds, prefix_uri \in PrefixUris :
        LET auth == require_bearer_token(cred, ALLOWED_TOKENS(env))
            u    == parse_gcs_uri(prefix_uri)
            req  == [pc |-> "done", prefix_uri |-> prefix_uri,
                     authorized |-> auth.ok, status |-> auth.status,
                     bucket |-> u.bucket, prefix |-> <<>>, todo |-> {},
                     shards |-> <<>>, seen |-> <<>>, clean |-> TRUE,
                     pages |-> <<>>, file_count |-> 0]
        IN  \/ /\ ~auth.ok
               /\ agg' = req
            \/ /\ auth.ok
               /\ ~u.ok
               /\ agg' = [req EXCEPT !.status = 400]
            \/ /\ auth.ok
               /\ u.ok
               /\ agg' = [req EXCEPT
                    !.pc = "loop",
                    !.prefix = FolderPrefix(u.path),
                    !.todo = list_blobs(gcs, u.bucket, FolderPrefix(u.path)),
                    !.shards = ShardsUnder(gcs, u.bucket,
                                           FolderPrefix(u.path))]
    /\ prev' = IF agg.pc = "done" /\ agg.authorized /\ agg.status = 200
                  /\ agg.clean
               THEN [set |-> TRUE, shards |-> agg.shards, pages |-> agg.pages,
                     file_count |-> agg.file_count]
               ELSE NoPrev
    /\ UNCHANGED <<env, resp, gcs, jobs, writes>>

\* One iteration of the loop over the listing, on whichever blob comes next:
\* a name without .json is skipped, a shard is downloaded and its pages are
\* appended. The download of a blob deleted since the listing raises NotFound.
ResultIterate ==
    /\ agg.pc = "loop"
    /\ \E name \in agg.todo :
        LET key    == <<agg.bucket, name>>
            source == Gs \o agg.bucket \o <<"/">> \o name
        IN  IF ~IsJsonName(name)
            THEN agg' = [agg EXCEPT !.todo = @ \ {name}]
            ELSE IF key \notin DOMAIN gcs
            THEN agg' = [agg EXCEPT !.pc = "done", !.status = 500,
                                    !.pages = <<>>]
            ELSE agg' = [agg EXCEPT
                    !.todo = @ \ {name},
                    !.seen = [n \in DOMAIN agg.seen \cup {name} |->
                                IF n = name THEN gcs[key] ELSE agg.seen[n]],
                    !.pages = @ \o ShardPages(gcs[key], source)]
    /\ UNCHANGED <<env, resp, gcs, jobs, prev, writes>>

\* After the loop: the sort, the page numbers, and the second listing
ResultReturn ==
    /\ agg.pc = "loop"
    /\ agg.todo = {}
    /\ agg' = [agg EXCEPT
            !.pc = "done",
            !.pages = Numbered(SortedBySource(agg.pages)),
            !.file_count = Cardinality(list_json_blobs(gcs, agg.prefix_uri))]
    /\ UNCHANGED <<env, resp, gcs, jobs, prev, writes>>

\* The OCR engine (or anyone else) writes an object of the bucket while the
\* request is in progress (a bucket changed at rest is another initial bucket).
StorageWrite ==
    /\ writes < MaxWrites
    /\ agg.pc = "loop"
    /\ \E name \in BlobNames : \E obj \in BlobContents(name) :
        /\ (<<BucketO, name>> \in DOMAIN gcs => gcs[<<BucketO, name>>] # obj)
        /\ gcs' = upload_bytes_to_gcs(gcs, obj, BucketO, name)
    /\ writes' = writes + 1
    /\ agg' = [agg EXCEPT !.clean = FALSE]
    /\ UNCHANGED <<env, resp, jobs, prev>>

\* Someone deletes an object of the bucket while the request is in progress.
StorageDelete ==
    /\ writes < MaxWrites
    /\ agg.pc = "loop"
    /\ \E key \in DOMAIN gcs :
        gcs' = [k \in DOMAIN gcs \ {key} |-> gcs[k]]
    /\ writes' = writes + 1
    /\ agg' = [agg EXCEPT !.clean = FALSE]
    /\ UNCHANGED <<env, resp, jobs, prev>>

InitResult ==
    /\ env \in DeployedEnvs
    /\ resp = Idle
    /\ gcs \in ResultBuckets
    /\ jobs = <<>>
    /\ agg = NoAgg
    /\ prev = NoPrev
    /\ writes = 0

NextResult ==
    \/ ResultRequest
    \/ ResultIterate
    \/ ResultReturn
    \/ StorageWrite
    \/ StorageDelete

SpecResult == InitResult /\ [][NextResult]_vars

\* The aggregation returned a result.
ResultReturned ==
    agg.pc = "done" /\ agg.authorized /\ agg.status = 200

\* C4: aggregation is deterministic: two calls that find the same shards
\* with the same contents under the prefix return the same page sequence
\* (text, source and page number at every position), whatever the order in
\* which the listing returned the shards to each of them.
C4_Deterministic ==
    (ResultReturned /\ agg.clean /\ prev.set /\ prev.shards = agg.shards)
        => agg.pages = prev.pages

\* Two calls over the same three shards, the second one returned.
C4_Witness ==
    /\ ResultReturned
    /\ agg.clean
    /\ prev.set
    /\ prev.shards = agg.shards
    /\ Cardinality(DOMAIN agg.shards) = 3
    /\ Len(agg.pages) >= 5

\* The texts of the result's pages that come from source, in page order
RECURSIVE TextsFrom(_, _)
TextsFrom(pages, source) ==
    IF pages = <<>> THEN <<>>
    ELSE IF Head(pages).source = source
    THEN <<Head(pages).text>> \o TextsFrom(Tail(pages), source)
    ELSE TextsFrom(Tail(pages), source)

\* The texts of a shard's responses, in the shard's order
ShardTexts(obj) ==
    [i \in 1..Len(obj.responses) |->
        IF obj.responses[i].has_text THEN obj.responses[i].text ELSE ""]

UriOf(name) == Gs \o BucketO \o <<"/">> \o name

\* C5: the N pages of a result carry the page numbers 1..N in sequence
\* order, their sources are in non-decreasing lexicographic order, and the
\* pages of one shard keep the order of the shard's responses; the shards
\* 0.json with texts A, B and 1.json with text C yield the pages (1, A),
\* (2, B), (3, C) and fileCount 2.
C5_DenseSortedPages ==
    ResultReturned =>
        /\ \A i \in 1..Len(agg.pages) : agg.pages[i].page = i
        /\ \A i, j \in 1..Len(agg.pages) :
            i < j => ~StrLess(agg.pages[j].source, agg.pages[i].source)
        /\ \A i \in 1..Len(agg.pages) :
            \E n \in DOMAIN agg.seen : agg.pages[i].source = UriOf(n)
        /\ \A n \in DOMAIN agg.seen :
            TextsFrom(agg.pages, UriOf(n)) = ShardTexts(agg.seen[n])
        /\ (agg.clean /\ DOMAIN agg.shards = {Name0, Name1}
                /\ agg.shards[Name0] = ShardAB /\ agg.shards[Name1] = ShardC)
            => /\ agg.pages =
                    <<[page |-> 1, text |-> "A", source |-> UriOf(Name0)],
                      [page |-> 2, text |-> "B", source |-> UriOf(Name0)],
                      [page |-> 3, text |-> "C", source |-> UriOf(Name1)]>>
               /\ agg.file_count = 2

\* The result over 10.JSON (B, no text, A), 1.json (C) and 0.json (A, B):
\* six pages, 0.json first and 10.JSON last.
C5_Witness ==
    /\ ResultReturned
    /\ DOMAIN agg.seen = {Name0, Name1, Name10}
    /\ agg.seen[Name0] = ShardAB
    /\ Len(agg.pages) = 6
    /\ agg.pages[6] = [page |-> 6, text |-> "A", source |-> UriOf(Name10)]

\* The shards that contributed a page to the result
Contributors == {agg.pages[i].source : i \in 1..Len(agg.pages)}

\* A shard under the prefix, as downloaded or as it is now, holds no response.
SomeShardWithoutResponses ==
    \/ \E n \in DOMAIN agg.seen :
        ShardPages(agg.seen[n], UriOf(n)) = <<>>
    \/ \E n \in DOMAIN ShardsUnder(gcs, agg.bucket, agg.prefix) :
        ShardPages(gcs[<<agg.bucket, n>>], UriOf(n)) = <<>>

\* C9: in every result, fileCount differs from the number of distinct shards
\* that contributed pages only when some shard under the prefix holds zero
\* responses, also when the bucket changes between the listing of the
\* aggregation and the second listing that computes fileCount.
C9_FileCountDiffersOnlyForEmptyShards ==
    ResultReturned =>
        (agg.file_count # Cardinality(Contributors)
            => SomeShardWithoutResponses)

=============================================================================
